---- MODULE Spec2Model ----
(***************************************************************************)
(* Model of the custom Keras layers of keras_fastqa (layers.py).           *)
(*                                                                         *)
(* Every layer is a pure function of its input tensors.  One example of a  *)
(* batch is modelled (all layers act per example).  A caller repeatedly    *)
(* picks a layer and inputs, the layer's call() computes its output, and   *)
(* the caller returns to idle.                                             *)
(*                                                                         *)
(* Numbers.  Token ids, lengths and indices are integers.  Feature values, *)
(* logits and weights are small integers (float32 represents them          *)
(* exactly); probabilities are exact reduced rationals [num, den].         *)
(* tf.float32.min is the integer FloatMin, far below every logit of the    *)
(* model; the two float32 effects the masking relies on are modelled       *)
(* explicitly: absorption in FAdd and underflow in Exp.                    *)
(***************************************************************************)
EXTENDS Integers, Sequences, FiniteSets, TLC

VARIABLES pc, layer, inp, aux, out

vars == <<pc, layer, inp, aux, out>>

(* ------------------------------ bounds --------------------------------- *)

\* length of the context / input sequence axis (max_len)
MaxLen == 3
\* length of the question sequence axis
QMaxLen == 2
\* size of the feature axis
Dim == 2
\* hidden_size of PositionPointer
HiddenSize == 1
\* logit differences below -ExpRange underflow to 0 in Exp
ExpRange == 8

(* --------------------------- program constants ------------------------- *)

\* tf.float32.min, about -3.4e38
FloatMin == -1000000
\* the token id tf.cast(x, tf.bool) maps to False
PadId == 0

TokenIds == 0..2
Positions(n) == 0..(n - 1)
Dims == 1..Dim
Hidden == 1..HiddenSize

(* ------------------------------ arithmetic ----------------------------- *)

Abs(a) == IF a < 0 THEN -a ELSE a

RECURSIVE Gcd(_, _)
Gcd(a, b) == IF b = 0 THEN a ELSE Gcd(b, a % b)

RECURSIVE Pow2(_)
Pow2(k) == IF k = 0 THEN 1 ELSE 2 * Pow2(k - 1)

\* the rational n/d (d > 0) in lowest terms
Rat(n, d) == LET g == Gcd(Abs(n), d) IN [num |-> n \div g, den |-> d \div g]
RatInt(n) == [num |-> n, den |-> 1]
RatAdd(a, b) == Rat(a.num * b.den + b.num * a.den, a.den * b.den)
RatMul(a, b) == Rat(a.num * b.num, a.den * b.den)

\* sum of f[0..n-1]
RECURSIVE SumTo(_, _)
SumTo(f, n) == IF n = 0 THEN 0 ELSE f[n - 1] + SumTo(f, n - 1)

RECURSIVE RatSumTo(_, _)
RatSumTo(f, n) == IF n = 0 THEN RatInt(0) ELSE RatAdd(f[n - 1], RatSumTo(f, n - 1))

RECURSIVE MaxTo(_, _)
MaxTo(f, n) == IF n = 1 THEN f[0]
               ELSE LET m == MaxTo(f, n - 1) IN IF f[n - 1] > m THEN f[n - 1] ELSE m

\* K.dot of a feature vector with a (d, 1) kernel
RECURSIVE DotTo(_, _, _)
DotTo(u, w, d) == IF d = 0 THEN 0 ELSE u[d] * w[d] + DotTo(u, w, d - 1)
Dot(u, w) == DotTo(u, w, Dim)

\* float32 product with tf.float32.min: min * 1 = min, min * 0 = 0
FMul(a, b) == a * b

\* float32 a + b where b is 0 or tf.float32.min: every logit of the model
\* is below half an ulp of tf.float32.min, so the sum rounds to min.
FAdd_exact(a, b) == a + b
FAdd(a, b) == IF b = FloatMin THEN FloatMin ELSE a + b

\* exp(d) for d <= 0, scaled by 2^ExpRange, base 2; exp(float32.min - m)
\* underflows to exactly 0.
Exp_noUnderflow(d) == IF d < -ExpRange THEN 1 ELSE Pow2(ExpRange + d)
Exp(d) == IF d < -ExpRange THEN 0 ELSE Pow2(ExpRange + d)

\* tf.nn.softmax over a vector z[0..n-1]: exp(z - max) / sum
Softmax(z, n) ==
    LET m == MaxTo(z, n)
        e == [i \in Positions(n) |-> Exp(z[i] - m)]
        s == SumTo(e, n)
    IN  [i \in Positions(n) |-> Rat(e[i], s)]

(* ------------------------------- masking ------------------------------- *)

\* tf.sequence_mask(len, maxlen, dtype=float32)
SequenceMask_offByOne(len, maxlen) == [i \in Positions(maxlen) |-> IF i <= len THEN 1 ELSE 0]
SequenceMask(len, maxlen) == [i \in Positions(maxlen) |-> IF i < len THEN 1 ELSE 0]

\* logits + tf.float32.min * (1 - mask)
MaskLogit_noBias(logit, m) == logit
MaskLogit(logit, m) == FAdd(logit, FMul(FloatMin, 1 - m))

(* ------------------------------- inputs -------------------------------- *)

\* feature vectors a position can hold
ZeroVec == [d \in Dims |-> 0]
OnesVec == [d \in Dims |-> 1]
UnitVec == [d \in Dims |-> IF d = 1 THEN 1 ELSE 0]
FeatureVecs == {ZeroVec, OnesVec, UnitVec}
\* feature vectors a question position of WordInQuestionW can hold
QuestionVecs == {OnesVec, UnitVec}

FeatSeqs(n) == [Positions(n) -> FeatureVecs]
TokenSeqs(n) == [Positions(n) -> TokenIds]

\* values of a learned (d, 1) kernel: the 'ones' initializer and a trained one
Kernels == {OnesVec, [d \in Dims |-> IF d = 1 THEN -1 ELSE 1]}

\* values of PositionPointer's learned weight (1, d, hidden), bias, v
PointerParams ==
    { [weight |-> [d \in Dims |-> [h \in Hidden |-> 1]],
       bias   |-> [h \in Hidden |-> 0],
       v      |-> [h \in Hidden |-> 1]],
      [weight |-> [d \in Dims |-> [h \in Hidden |-> IF d = 1 THEN 2 ELSE -1]],
       bias   |-> [h \in Hidden |-> -1],
       v      |-> [h \in Hidden |-> IF h = 1 THEN -1 ELSE 1]] }

\* the layers Backward can wrap: position-wise identity, and a left-to-right
\* recurrence (running sum of the inputs seen so far)
WrappedLayers == {"identity", "cumsum"}

NoValue == [none |-> TRUE]

(* ---------------------------- SequenceLength --------------------------- *)

\* tf.cast(x, tf.bool): nonzero is True
CastBool_aboveOne(t) == t > 1
CastBool(t) == t # 0

ToInt32(b) == IF b THEN 1 ELSE 0

\* tf.reduce_sum(tf.to_int32(tf.cast(x, tf.bool)), axis=1)
SequenceLengthFunc(x, n) == SumTo([i \in Positions(n) |-> ToInt32(CastBool(x[i]))], n)

(* ------------------------------ WeightedSum ---------------------------- *)

\* WeightedSum.call for one example: mask, alpha and the pooled vector
WeightedSumCall(x, seq_len, weight) ==
    LET n      == MaxLen
        logits == [i \in Positions(n) |-> Dot(x[i], weight)]
        mask   == SequenceMask(seq_len, n)
        masked == [i \in Positions(n) |-> MaskLogit(logits[i], mask[i])]
        alpha  == Softmax(masked, n)
        y      == [d \in Dims |->
                     RatSumTo([i \in Positions(n) |-> RatMul(alpha[i], RatInt(x[i][d]))], n)]
    IN  [mask |-> mask, alpha |-> alpha, y |-> y]

(* ---------------------------- WordInQuestionB -------------------------- *)

\* tf.reduce_any(tf.equal(context, question), axis=2) at context position i:
\* every position of the question axis takes part
ReduceAnyEqual_reduceAll(context, question, i) ==
    \A j \in Positions(QMaxLen) : context[i] = question[j]
ReduceAnyEqual(context, question, i) ==
    \E j \in Positions(QMaxLen) : context[i] = question[j]

\* WordInQuestionB's func for one example
WordInQuestionBFunc(question, context, context_len) ==
    LET wiq_b == [i \in Positions(MaxLen) |-> ToInt32(ReduceAnyEqual(context, question, i))]
        mask  == SequenceMask(context_len, MaxLen)
    IN  [mask |-> mask, y |-> [i \in Positions(MaxLen) |-> wiq_b[i] * mask[i]]]

(* ---------------------------- WordInQuestionW -------------------------- *)

\* K.dot(context * question, weight) for the pair (i, j)
Similarity(question, context, weight, i, j) ==
    Dot([d \in Dims |-> context[i][d] * question[j][d]], weight)

\* tf.nn.softmax(similarity, axis=1): axis 1 of (batch, context, question)
\* is the context axis, so each question position j is normalised over the
\* context positions
SoftmaxAxis1_questionAxis(sim) ==
    LET row == [i \in Positions(MaxLen) |-> Softmax(sim[i], QMaxLen)]
    IN  [i \in Positions(MaxLen) |-> [j \in Positions(QMaxLen) |-> row[i][j]]]
SoftmaxAxis1(sim) ==
    LET col == [j \in Positions(QMaxLen) |->
                  Softmax([i \in Positions(MaxLen) |-> sim[i][j]], MaxLen)]
    IN  [i \in Positions(MaxLen) |-> [j \in Positions(QMaxLen) |-> col[j][i]]]

\* tf.matmul(context_mask, question_mask): (c, 1) x (1, q)
PairMask(context_mask, question_mask) ==
    [i \in Positions(MaxLen) |-> [j \in Positions(QMaxLen) |->
        context_mask[i] * question_mask[j]]]

\* WordInQuestionW.call for one example
WordInQuestionWCall(question, context, question_len, context_len, weight) ==
    LET question_mask == SequenceMask(question_len, QMaxLen)
        context_mask  == SequenceMask(context_len, MaxLen)
        mask   == PairMask(context_mask, question_mask)
        sim    == [i \in Positions(MaxLen) |-> [j \in Positions(QMaxLen) |->
                     MaskLogit(Similarity(question, context, weight, i, j), mask[i][j])]]
        soft   == SoftmaxAxis1(sim)
        normed == [i \in Positions(MaxLen) |-> [j \in Positions(QMaxLen) |->
                     RatMul(soft[i][j], RatInt(mask[i][j]))]]
    IN  [question_mask |-> question_mask, context_mask |-> context_mask,
         mask |-> mask, normed |-> normed,
         y |-> [i \in Positions(MaxLen) |-> RatSumTo(normed[i], QMaxLen)]]

(* ---------------------------- PositionPointer -------------------------- *)

Relu(a) == IF a > 0 THEN a ELSE 0

RECURSIVE PointerPosTo(_, _, _, _)
PointerPosTo(u, p, h, d) ==
    IF d = 0 THEN 0 ELSE u[d] * p.weight[d][h] + PointerPosTo(u, p, h, d - 1)

RECURSIVE PointerLogitTo(_, _, _)
PointerLogitTo(pos, p, h) ==
    IF h = 0 THEN 0 ELSE pos[h] * p.v[h] + PointerLogitTo(pos, p, h - 1)

\* PositionPointer.call for one example
PositionPointerCall(x, seq_len, p) ==
    LET n      == MaxLen
        pos    == [i \in Positions(n) |-> [h \in Hidden |->
                     Relu(PointerPosTo(x[i], p, h, Dim) + p.bias[h])]]
        logits == [i \in Positions(n) |-> PointerLogitTo(pos[i], p, HiddenSize)]
        mask   == SequenceMask(seq_len, n)
        masked == [i \in Positions(n) |-> MaskLogit(logits[i], mask[i])]
    IN  [mask |-> mask, y |-> Softmax(masked, n)]

(* ------------------------------ IndexSelect ---------------------------- *)

\* K.one_hot(indices, depth)
OneHot_shifted(k, depth) == [i \in Positions(depth) |-> IF i = (k + 1) % depth THEN 1 ELSE 0]
OneHot(k, depth) == [i \in Positions(depth) |-> IF i = k THEN 1 ELSE 0]

\* IndexSelect's func for one example: tf.reduce_sum(x * mask, axis=1)
IndexSelectFunc(x, k) ==
    LET mask == OneHot(k, MaxLen)
    IN  [d \in Dims |-> SumTo([i \in Positions(MaxLen) |-> x[i][d] * mask[i]], MaxLen)]

(* -------------------------------- Backward ----------------------------- *)

\* tf.reverse_sequence(x, seq_len, seq_axis=1, batch_axis=0) for one example
ReverseSequence_naive(x, seq_len) ==
    [i \in Positions(MaxLen) |-> x[MaxLen - 1 - i]]
ReverseSequence_rotate(x, seq_len) ==
    [i \in Positions(MaxLen) |-> IF i < seq_len THEN x[(i + 1) % seq_len] ELSE x[i]]
ReverseSequence(x, seq_len) ==
    [i \in Positions(MaxLen) |-> IF i < seq_len THEN x[seq_len - 1 - i] ELSE x[i]]

\* self.layer.call(x, ...): the wrapped layer run left to right
RECURSIVE CumSum(_, _)
CumSum(x, i) ==
    IF i = 0 THEN x[0] ELSE [d \in Dims |-> x[i][d] + CumSum(x, i - 1)[d]]

ApplyLayer(l, x) ==
    IF l = "identity" THEN x ELSE [i \in Positions(MaxLen) |-> CumSum(x, i)]

\* Backward.call for one example: the sequence handed to the wrapped layer,
\* the wrapped layer's output and the returned sequence
BackwardCall(x, seq_len, l) ==
    LET handed == ReverseSequence(x, seq_len)
        inner  == ApplyLayer(l, handed)
    IN  [handed |-> handed, inner |-> inner, y |-> ReverseSequence(inner, seq_len)]

(* ------------------------------- actions ------------------------------- *)

Init ==
    /\ pc = "idle"
    /\ layer = "none"
    /\ inp = NoValue
    /\ aux = NoValue
    /\ out = NoValue

CallSequenceLength ==
    /\ pc = "idle"
    /\ \E x \in TokenSeqs(MaxLen) :
         /\ inp' = [x |-> x]
         /\ aux' = NoValue
         /\ out' = [status |-> "ok", y |-> SequenceLengthFunc(x, MaxLen)]
    /\ layer' = "SequenceLength"
    /\ pc' = "done"

\* the layer is run on x and on x2, which agrees with x below seq_len and
\* holds the vector fill at every position from seq_len on
CallWeightedSum ==
    /\ pc = "idle"
    /\ \E x \in FeatSeqs(MaxLen), fill \in FeatureVecs,
          seq_len \in 0..MaxLen, weight \in Kernels :
         \E x2 \in {[i \in Positions(MaxLen) |-> IF i < seq_len THEN x[i] ELSE fill]} :
         \E r \in {WeightedSumCall(x, seq_len, weight)}, r2 \in {WeightedSumCall(x2, seq_len, weight)} :
             /\ inp' = [x |-> x, x2 |-> x2, seq_len |-> seq_len, weight |-> weight]
             /\ aux' = [mask |-> r.mask, alpha |-> r.alpha]
             /\ out' = [status |-> "ok", y |-> r.y, y2 |-> r2.y]
    /\ layer' = "WeightedSum"
    /\ pc' = "done"

\* question_len is the question's length as the batch carries it; func takes
\* (question, context, context_len) and is not given it
CallWordInQuestionB ==
    /\ pc = "idle"
    /\ \E question \in TokenSeqs(QMaxLen), context \in TokenSeqs(MaxLen),
          question_len \in 0..QMaxLen, context_len \in 0..MaxLen :
         \E r \in {WordInQuestionBFunc(question, context, context_len)} :
             /\ inp' = [question |-> question, context |-> context,
                        question_len |-> question_len, context_len |-> context_len]
             /\ aux' = [mask |-> r.mask]
             /\ out' = [status |-> "ok", y |-> r.y]
    /\ layer' = "WordInQuestionB"
    /\ pc' = "done"

CallWordInQuestionW ==
    /\ pc = "idle"
    /\ \E question \in [Positions(QMaxLen) -> QuestionVecs], context \in FeatSeqs(MaxLen),
          question_len \in 0..QMaxLen, context_len \in 0..MaxLen, weight \in Kernels :
         \E r \in {WordInQuestionWCall(question, context, question_len, context_len, weight)} :
             /\ inp' = [question |-> question, context |-> context,
                        question_len |-> question_len, context_len |-> context_len,
                        weight |-> weight]
             /\ aux' = [question_mask |-> r.question_mask, context_mask |-> r.context_mask,
                        mask |-> r.mask, normed |-> r.normed]
             /\ out' = [status |-> "ok", y |-> r.y]
    /\ layer' = "WordInQuestionW"
    /\ pc' = "done"

CallPositionPointer ==
    /\ pc = "idle"
    /\ \E x \in FeatSeqs(MaxLen), seq_len \in 0..MaxLen, p \in PointerParams :
         \E r \in {PositionPointerCall(x, seq_len, p)} :
             /\ inp' = [x |-> x, seq_len |-> seq_len, params |-> p]
             /\ aux' = [mask |-> r.mask]
             /\ out' = [status |-> "ok", y |-> r.y]
    /\ layer' = "PositionPointer"
    /\ pc' = "done"

\* indices come from Argmax over the same sequence axis, so 0 <= k < MaxLen
CallIndexSelect ==
    /\ pc = "idle"
    /\ \E x \in FeatSeqs(MaxLen), k \in Positions(MaxLen) :
         /\ inp' = [x |-> x, indices |-> k]
         /\ aux' = NoValue
         /\ out' = [status |-> "ok", y |-> IndexSelectFunc(x, k)]
    /\ layer' = "IndexSelect"
    /\ pc' = "done"

\* tf.reverse_sequence rejects a seq_len above the length of the sequence axis
CallBackward ==
    /\ pc = "idle"
    /\ \E x \in FeatSeqs(MaxLen), seq_len \in 0..(MaxLen + 1), l \in WrappedLayers :
         /\ inp' = [x |-> x, seq_len |-> seq_len, wrapped |-> l]
         /\ IF seq_len > MaxLen
            THEN /\ aux' = NoValue
                 /\ out' = [status |-> "error"]
            ELSE \E r \in {BackwardCall(x, seq_len, l)} :
                     /\ aux' = [handed |-> r.handed, inner |-> r.inner]
                     /\ out' = [status |-> "ok", y |-> r.y]
    /\ layer' = "Backward"
    /\ pc' = "done"

\* the caller takes the result; the next call starts from idle
Return ==
    /\ pc = "done"
    /\ pc' = "idle"
    /\ layer' = "none"
    /\ inp' = NoValue
    /\ aux' = NoValue
    /\ out' = NoValue

Next ==
    \/ CallSequenceLength
    \/ CallWeightedSum
    \/ CallWordInQuestionB
    \/ CallWordInQuestionW
    \/ CallPositionPointer
    \/ CallIndexSelect
    \/ CallBackward
    \/ Return

Spec == Init /\ [][Next]_vars

Done(l) == pc = "done" /\ layer = l /\ out.status = "ok"

(* ------------------------------ properties ----------------------------- *)

One == RatInt(1)
Zero == RatInt(0)

\* m is 1 exactly on 0..len-1 of its n positions
PrefixMask(m, len, n) ==
    /\ DOMAIN m = Positions(n)
    /\ \A i \in Positions(n) : (i < len => m[i] = 1) /\ (i >= len => m[i] = 0)
    /\ Cardinality({i \in Positions(n) : m[i] = 1}) = len

\* C1: the validity mask WeightedSum, WordInQuestionB, WordInQuestionW and
\* PositionPointer derive from a length L in 0..max_len is 1 at exactly the
\* positions 0..L-1 and 0 at L..max_len-1, so it has exactly L true values.
C1_MaskIsPrefix ==
    /\ Done("WeightedSum") => PrefixMask(aux.mask, inp.seq_len, MaxLen)
    /\ Done("PositionPointer") => PrefixMask(aux.mask, inp.seq_len, MaxLen)
    /\ Done("WordInQuestionB") => PrefixMask(aux.mask, inp.context_len, MaxLen)
    /\ Done("WordInQuestionW") =>
         /\ PrefixMask(aux.question_mask, inp.question_len, QMaxLen)
         /\ PrefixMask(aux.context_mask, inp.context_len, MaxLen)

C1_Witness ==
    /\ Done("PositionPointer")
    /\ inp.seq_len >= 1 /\ inp.seq_len < MaxLen
    /\ aux.mask[inp.seq_len - 1] = 1
    /\ aux.mask[inp.seq_len] = 0

\* p is a distribution over the positions 0..len-1 of its n positions and
\* exactly 0 from len on
MaskedDistribution(p, len, n) ==
    /\ \A i \in Positions(n) : p[i].num >= 0 /\ p[i].den > 0
    /\ RatSumTo(p, len) = One
    /\ \A i \in Positions(n) : i >= len => p[i] = Zero

\* C2: for a length L >= 1 the attention weights alpha of WeightedSum and the
\* output of PositionPointer are non-negative, sum to 1 over the positions
\* 0..L-1 and are exactly 0 at L..max_len-1; for L = 1 PositionPointer
\* returns exactly 1 at position 0 and 0 elsewhere.
C2_MaskedSoftmax ==
    /\ (Done("WeightedSum") /\ inp.seq_len >= 1) =>
         MaskedDistribution(aux.alpha, inp.seq_len, MaxLen)
    /\ (Done("PositionPointer") /\ inp.seq_len >= 1) =>
         MaskedDistribution(out.y, inp.seq_len, MaxLen)
    /\ (Done("PositionPointer") /\ inp.seq_len = 1) =>
         \A i \in Positions(MaxLen) : out.y[i] = IF i = 0 THEN One ELSE Zero

C2_Witness ==
    /\ Done("WeightedSum")
    /\ inp.seq_len >= 2 /\ inp.seq_len < MaxLen
    /\ aux.alpha[0] # aux.alpha[1]
    /\ aux.alpha[0] # Zero /\ aux.alpha[1] # Zero
    /\ aux.alpha[inp.seq_len] = Zero

\* C3 as stated: the pooled vector of WeightedSum is the same for x and for
\* any x2 that agrees with x at every position below seq_len, whatever the
\* positions from seq_len on hold.
C3_Original ==
    Done("WeightedSum") => out.y = out.y2

\* C3 amended: the same, for seq_len >= 1.
C3_PaddingInvariant ==
    (Done("WeightedSum") /\ inp.seq_len >= 1) => out.y = out.y2

C3_Witness ==
    /\ Done("WeightedSum")
    /\ inp.seq_len >= 1 /\ inp.seq_len < MaxLen
    /\ inp.x[MaxLen - 1] # inp.x2[MaxLen - 1]
    /\ out.y = out.y2
    /\ \E d \in Dims : out.y[d] # Zero

\* context position i matches a question position below question_len
InValidQuestion(i) ==
    \E j \in Positions(QMaxLen) : j < inp.question_len /\ inp.context[i] = inp.question[j]

\* context position i matches some question position
InQuestion(i) ==
    \E j \in Positions(QMaxLen) : inp.context[i] = inp.question[j]

\* C4 as stated: WordInQuestionB is 1 at context position i iff i is below
\* the context length and the context token equals a question token at a
\* position below the question length; 0 otherwise.
C4_Original ==
    Done("WordInQuestionB") =>
        \A i \in Positions(MaxLen) :
            /\ out.y[i] \in {0, 1}
            /\ out.y[i] = 1 <=> (i < inp.context_len /\ InValidQuestion(i))

\* C4 amended: WordInQuestionB is 1 at context position i iff i is below the
\* context length and the context token equals the question token at some
\* position of the question axis, padded question positions included; it is
\* 0 at every padded context position.
C4_WordInQuestion ==
    Done("WordInQuestionB") =>
        \A i \in Positions(MaxLen) :
            /\ out.y[i] \in {0, 1}
            /\ out.y[i] = 1 <=> (i < inp.context_len /\ InQuestion(i))

C4_Witness ==
    /\ Done("WordInQuestionB")
    /\ \E i \in Positions(MaxLen) :
         i < inp.context_len /\ InQuestion(i) /\ ~InValidQuestion(i) /\ out.y[i] = 1
    /\ \E i \in Positions(MaxLen) :
         i < inp.context_len /\ ~InQuestion(i) /\ out.y[i] = 0
    /\ \E i \in Positions(MaxLen) :
         i >= inp.context_len /\ InQuestion(i) /\ out.y[i] = 0

\* the masked, normalised similarities of context position i summed over
\* the question axis
SumOverQuestion(i) == RatSumTo(aux.normed[i], QMaxLen)

\* the masked, normalised similarities of question position j summed over
\* the context axis
SumOverContext(j) == RatSumTo([i \in Positions(MaxLen) |-> aux.normed[i][j]], MaxLen)

\* the pair mask is the outer product of the two masks, masked pairs hold 0
\* and the output is the sum over the question axis
PairsMaskedAndSummed ==
    \A i \in Positions(MaxLen) :
        /\ \A j \in Positions(QMaxLen) :
             /\ aux.mask[i][j] = 1 <=> (i < inp.context_len /\ j < inp.question_len)
             /\ aux.mask[i][j] \in {0, 1}
             /\ aux.mask[i][j] = 0 => aux.normed[i][j] = Zero
             /\ aux.normed[i][j].num >= 0
        /\ out.y[i] = SumOverQuestion(i)

\* C5 as stated: WordInQuestionW normalises over the question axis: for every
\* valid context position the masked, normalised similarities across the
\* question positions sum to 1; the output is their sum over the question
\* axis; a pair is valid only if both positions are within their lengths.
C5_Original ==
    (Done("WordInQuestionW") /\ inp.question_len >= 1) =>
        /\ \A i \in Positions(MaxLen) : i < inp.context_len => SumOverQuestion(i) = One
        /\ PairsMaskedAndSummed

\* C5 amended: WordInQuestionW normalises over the context axis: for every
\* valid question position (and a context length >= 1) the masked, normalised
\* similarities across the context positions sum to 1; the output of a
\* context position is their sum over the question axis; a pair is valid
\* only if both positions are within their lengths.
C5_SoftmaxOverContext ==
    Done("WordInQuestionW") =>
        /\ inp.context_len >= 1 =>
             \A j \in Positions(QMaxLen) : j < inp.question_len => SumOverContext(j) = One
        /\ PairsMaskedAndSummed

C5_Witness ==
    /\ Done("WordInQuestionW")
    /\ inp.question_len = QMaxLen
    /\ inp.context_len >= 2 /\ inp.context_len < MaxLen
    /\ SumOverContext(0) = One
    /\ SumOverQuestion(0) # One
    /\ out.y[0] # out.y[1]
    /\ out.y[inp.context_len] = Zero

\* C6: Backward around an identity-like layer returns, at every position
\* below the length L, exactly the input vector of that position.
C6_BackwardIdentity ==
    (Done("Backward") /\ inp.wrapped = "identity") =>
        \A i \in Positions(MaxLen) : i < inp.seq_len => out.y[i] = inp.x[i]

C6_Witness ==
    /\ Done("Backward") /\ inp.wrapped = "identity"
    /\ inp.seq_len >= 2 /\ inp.seq_len < MaxLen
    /\ aux.handed # inp.x
    /\ inp.x[0] # inp.x[inp.seq_len - 1]
    /\ out.y[0] = inp.x[0]

\* every non-pad token precedes every pad token
RightPadded(x, n) ==
    \A i, j \in Positions(n) : (x[i] = PadId /\ i < j) => x[j] = PadId

C8_IndexSelect ==
    Done("IndexSelect") =>
        /\ DOMAIN out.y = Dims
        /\ \A d \in Dims : out.y[d] = inp.x[inp.indices][d]

C8_Witness ==
    /\ Done("IndexSelect")
    /\ inp.indices >= 1
    /\ \A i \in Positions(MaxLen) : i # inp.indices => inp.x[i] # inp.x[inp.indices]
    /\ out.y = inp.x[inp.indices]

\* the call has an all-masked row: a length 0 reaches the masked softmax
AllMasked ==
    /\ pc = "done"
    /\ \/ layer \in {"WeightedSum", "PositionPointer"} /\ inp.seq_len = 0
       \/ layer = "WordInQuestionW" /\ (inp.context_len = 0 \/ inp.question_len = 0)

AllFalse(m, n) == \A i \in Positions(n) : m[i] = 0

\* C9 as stated: a length of 0 yields an all-false mask, and a layer whose
\* masked softmax gets an all-masked row fails instead of returning a
\* distribution over the padded positions.
C9_Original ==
    AllMasked =>
        /\ layer \in {"WeightedSum", "PositionPointer"} => AllFalse(aux.mask, MaxLen)
        /\ out.status = "error"

Uniform(p, n) == \A i \in Positions(n) : p[i] = Rat(1, n)

\* C9 amended: a length of 0 yields an all-false mask, and the layer does not
\* fail: WeightedSum's alpha and PositionPointer's output are the uniform
\* distribution 1/max_len over the (padded) positions, and WordInQuestionW
\* returns 0 at every context position.
C9_AllMaskedUniform ==
    AllMasked =>
        /\ out.status = "ok"
        /\ layer = "WeightedSum" =>
             AllFalse(aux.mask, MaxLen) /\ Uniform(aux.alpha, MaxLen)
        /\ layer = "PositionPointer" =>
             AllFalse(aux.mask, MaxLen) /\ Uniform(out.y, MaxLen)
        /\ layer = "WordInQuestionW" =>
             /\ \A i \in Positions(MaxLen) : AllFalse(aux.mask[i], QMaxLen)
             /\ \A i \in Positions(MaxLen) : out.y[i] = Zero

C9_Witness ==
    /\ AllMasked
    /\ layer = "WeightedSum"
    /\ Dot(inp.x[0], inp.weight) # Dot(inp.x[1], inp.weight)
    /\ Uniform(aux.alpha, MaxLen)
    /\ out.status = "ok"

\* y is the reverse of x on 0..len-1 and x itself from len on
LengthAwareReverse(y, x, len) ==
    /\ \A i \in Positions(MaxLen) : i < len => y[i] = x[len - 1 - i]
    /\ \A i \in Positions(MaxLen) : i >= len => y[i] = x[i]

\* C10: the sequence Backward hands to the wrapped layer is the length-aware
\* reverse of the input (position i < L holds input position L-1-i, every
\* position i >= L keeps its own vector), and the same reverse is applied to
\* the wrapped layer's output.
C10_LengthAwareReverse ==
    Done("Backward") =>
        /\ LengthAwareReverse(aux.handed, inp.x, inp.seq_len)
        /\ aux.inner = ApplyLayer(inp.wrapped, aux.handed)
        /\ LengthAwareReverse(out.y, aux.inner, inp.seq_len)

C10_Witness ==
    /\ Done("Backward") /\ inp.wrapped = "cumsum"
    /\ inp.seq_len >= 2 /\ inp.seq_len < MaxLen
    /\ aux.handed # inp.x
    /\ aux.handed[MaxLen - 1] = inp.x[MaxLen - 1]
    /\ inp.x[MaxLen - 1] # inp.x[0]
    /\ out.y # aux.inner

====
